---------------------------- MODULE Spec2Model ----------------------------
(***************************************************************************)
(* Hybrid retrieval edge functions: textbook_search (similarity + keyword  *)
(* search, dedup, context expansion, group merge) and the cross-reference  *)
(* variant sci_search (similarity search + relational citation lookup).    *)
(*                                                                         *)
(* Strings the code parses or compares (chunk ids, rec_id) are sequences   *)
(* of one-character strings; texts that are only copied and joined are     *)
(* TLA+ strings.                                                           *)
(***************************************************************************)
EXTENDS Integers, Sequences, FiniteSets, TLC

VARIABLES
    \* ---- textbook_search: one call of search
    pc,                 \* where the call stands
    args,               \* search's parameters: extK, and filter / datefilter when given
    filters, body, queryOptions,
    pinecone, fulltext, \* the two promises handed to Promise.all
    pineconeResponse, fulltextResponse,
    id_set, unique_docs, extend_ids, combinedDocs, docList,
    pushed,             \* history: the chunk id and backend behind each unique_docs.push
    \* ---- sci_search: one call of search
    sci_pc, sci_error,
    sci_filter,         \* search's filter parameter: <<>> when not given, else <<filter>>
    sci_queryOptions,
    sci_matches,        \* pineconeResponse.matches
    sci_unique_docs,
    getMeta_doi, getMeta_i, getMeta_allData,
    batchError,         \* history: a batch of getMeta came back with an error
    pgResponse,         \* Null, or <<the records>>
    sci_docList,
    journals,           \* the DOIs the journals table has a record for
    \* ---- the two Deno.serve handlers, several requests in flight (SpecAuth)
    redis,              \* the keys the session cache holds
    req,                \* per request in flight: where its handler stands, and what it saw
    served,             \* requests received so far
    \* ---- getIdRange applied to one input (SpecWindow)
    w_id, w_extK, w_result, w_pc

searchVars == <<pc, args, filters, body, queryOptions, pinecone, fulltext,
                pineconeResponse, fulltextResponse, id_set, unique_docs,
                extend_ids, combinedDocs, docList, pushed>>
sciVars == <<sci_pc, sci_error, sci_filter, sci_queryOptions, sci_matches,
             sci_unique_docs, getMeta_doi, getMeta_i, getMeta_allData, batchError, pgResponse,
             sci_docList, journals>>
authVars == <<redis, req, served>>
winVars == <<w_id, w_extK, w_result, w_pc>>
vars == <<searchVars, sciVars, authVars, winVars>>

(***************************************************************************)
(* JavaScript values                                                       *)
(***************************************************************************)
\* An optional property is a key that is or is not in the record's domain
Has(obj, key) == key \in DOMAIN obj

\* null, where the other value is an array
Null == <<>>

Range(s) == {s[i] : i \in DOMAIN s}

SetAddForgotten(s, x) == s

\* A Set keeps insertion order: a sequence without repeats
SetAdd(s, x) == IF x \in Range(s) THEN s ELSE Append(s, x)

SetDelete(s, x) == SelectSeq(s, LAMBDA y : y # x)

RECURSIVE SetAddAll(_, _)
SetAddAll(s, xs) == IF xs = <<>> THEN s ELSE SetAddAll(SetAdd(s, Head(xs)), Tail(xs))

SetDeleteNone(s, xs) == s

RECURSIVE SetDeleteAll(_, _)
SetDeleteAll(s, xs) ==
    IF xs = <<>> THEN s ELSE SetDeleteAll(SetDelete(s, Head(xs)), Tail(xs))

Digit == <<"0", "1", "2", "3", "4", "5", "6", "7", "8", "9">>

IsDigit(c) == \E d \in 1..10 : Digit[d] = c

DigitValue(c) == (CHOOSE d \in 1..10 : Digit[d] = c) - 1

Max(a, b) == IF a >= b THEN a ELSE b

\* parseInt(s, 10) of a string of decimal digits
RECURSIVE ParseInt(_)
ParseInt(s) ==
    IF Len(s) = 0 THEN 0
    ELSE 10 * ParseInt(SubSeq(s, 1, Len(s) - 1)) + DigitValue(s[Len(s)])

\* `${i}` of an integer
RECURSIVE NumberToString(_)
NumberToString(i) ==
    IF i < 0 THEN <<"-">> \o NumberToString(0 - i)
    ELSE IF i < 10 THEN <<Digit[i + 1]>>
    ELSE NumberToString(i \div 10) \o <<Digit[(i % 10) + 1]>>

\* id.lastIndexOf('_') + 1: the 1-based place of the last '_', 0 when none
LastIndexOf(s, c) ==
    LET at == {p \in 1..Len(s) : s[p] = c}
    IN  IF at = {} THEN 0 ELSE CHOOSE p \in at : \A q \in at : q <= p

\* id.match(/_(\d+)$/): <<the match, the captured digits>>, Null when the id
\* does not end in '_' followed by one or more digits
MatchIndex(id) ==
    LET p == LastIndexOf(id, "_")
    IN  IF p > 0 /\ p < Len(id) /\ \A q \in (p + 1)..Len(id) : IsDigit(id[q])
        THEN <<SubSeq(id, p, Len(id)), SubSeq(id, p + 1, Len(id))>>
        ELSE Null

(***************************************************************************)
(* getIdRange                                                              *)
(***************************************************************************)
LowerBoundUnclamped(baseId, extK) == baseId - extK

\* Math.max(0, baseId - extK), the loop's first index
LowerBound(baseId, extK) == Max(0, baseId - extK)

\* The Set it returns, in insertion order (ascending i)
getIdRange(id, extK) ==
    LET match == MatchIndex(id)
    IN  IF match = Null THEN <<>>
        ELSE LET baseId == ParseInt(match[2])
                 prefix == SubSeq(id, 1, LastIndexOf(id, "_"))
                 lo == LowerBound(baseId, extK)
             IN  [j \in 1..(baseId + extK - lo + 1) |-> prefix \o NumberToString(lo + j - 1)]

(***************************************************************************)
(* textbook_search: the fixture the two backends answer from               *)
(***************************************************************************)
a_0 == <<"a", "_", "0">>
a_1 == <<"a", "_", "1">>
a_2 == <<"a", "_", "2">>
a_3 == <<"a", "_", "3">>
b_2 == <<"b", "_", "2">>
b_3 == <<"b", "_", "3">>
c_x == <<"c">>

RecA == <<"A">>
RecAB == <<"A", "B">>
RecB == <<"B">>

\* A vector's metadata in the similarity store
PineconeMetadata(rec, text, page) ==
    [rec_id |-> rec, page_number |-> page, isbn_number |-> "isbn", text |-> text,
     title |-> "title", company_name |-> "company", publication_date |-> 1700000000]

\* A document's _source in the keyword store
OpensearchSource(rec, text, page) ==
    [rec_id |-> rec, page_number |-> page, isbn_number |-> "isbn", text |-> text,
     title |-> "title", author |-> "author", publication_date |-> 1700000000]

\* The keyword index: chunk id -> _source. a_* are chunks of one book, c has no
\* chunk suffix and belongs to the same book, b_* to another
OpensearchIndex ==
    (a_0 :> OpensearchSource(RecA, "K:a0", 10)) @@
    (a_1 :> OpensearchSource(RecA, "K:a1", 11)) @@
    (a_2 :> OpensearchSource(RecA, "K:a2", 12)) @@
    (a_3 :> OpensearchSource(RecA, "K:a3", 13)) @@
    (b_2 :> OpensearchSource(RecB, "K:b2", 22)) @@
    (b_3 :> OpensearchSource(RecB, "K:b3", 23)) @@
    (c_x :> OpensearchSource(RecAB, "K:c", 30))

\* Matches the similarity store may return; b_2 carries no metadata
PineconeMatches ==
    {[id |-> a_1, metadata |-> PineconeMetadata(RecA, "S:a1", 11)],
     [id |-> a_0, metadata |-> PineconeMetadata(RecA, "S:a0", 10)],
     [id |-> c_x, metadata |-> PineconeMetadata(RecA, "S:c", 30)],
     [id |-> b_2]}

\* Hits the keyword store may return
OpensearchHits ==
    {[_id |-> i, _source |-> OpensearchIndex[i]] : i \in {a_1, a_2, b_2, c_x}}

MaxHits == 3
MaxExtK == 2

SeqsUpTo(S, n) == UNION {[1..k -> S] : k \in 0..n}

(***************************************************************************)
(* filterToPCQuery and the two query bodies                                *)
(***************************************************************************)
\* if (x) on an optional number: undefined and 0 are falsy
TruthyNumber(obj, key) == Has(obj, key) /\ obj[key] # 0

\* if (x) on an array or object: always true, also when it is empty
TruthyObject(x) == TRUE

\* The fields of an object, in a fixed enumeration order
RECURSIVE Keys(_)
Keys(obj) ==
    IF DOMAIN obj = {} THEN <<>>
    ELSE LET k == CHOOSE k \in DOMAIN obj : TRUE
         IN  <<k>> \o Keys([x \in DOMAIN obj \ {k} |-> obj[x]])

\* One range field's condition: a bound is copied only when it is truthy
RangeCondition(r) ==
    [k \in {k \in {"gte", "lte"} : TruthyNumber(r, k)} |-> r[k]]

ItemConditions(item) ==
    (IF Has(item, "terms")
     THEN LET ks == Keys(item.terms)
          IN  [j \in 1..Len(ks) |-> [field |-> ks[j], cond |-> [in |-> item.terms[ks[j]]]]]
     ELSE <<>>)
    \o
    (IF Has(item, "range")
     THEN LET ks == Keys(item.range)
          IN  [j \in 1..Len(ks) |-> [field |-> ks[j], cond |-> RangeCondition(item.range[ks[j]])]]
     ELSE <<>>)

\* filters.flatMap(...)
RECURSIVE AndConditions(_)
AndConditions(fs) ==
    IF fs = <<>> THEN <<>> ELSE ItemConditions(Head(fs)) \o AndConditions(Tail(fs))

\* The operators $and, $in, $gte, $lte are written and, in, gte, lte
filterToPCQuery(fs) == [and |-> AndConditions(fs)]

\* const filters = [] and the pushes of lines 158-167
BuildFilters(a) ==
    (IF Has(a, "filter") THEN <<[terms |-> a.filter]>> ELSE <<>>)
    \o (IF Has(a, "datefilter") THEN <<[range |-> a.datefilter]>> ELSE <<>>)

\* body.query.bool, without the should clauses
BuildBody(fs) ==
    IF TruthyObject(fs)
    THEN [minimum_should_match |-> 1, filter |-> fs]
    ELSE [minimum_should_match |-> 1]

BuildQueryOptions(fs) ==
    LET base == [includeMetadata |-> TRUE, includeValues |-> FALSE]
    IN  IF TruthyObject(fs) THEN base @@ [filter |-> filterToPCQuery(fs)] ELSE base

(***************************************************************************)
(* The reducer, the expander and the merger                                *)
(***************************************************************************)
\* parseInt(id.match(/_(\d+)$/)?.[1] ?? '0', 10)
SortId(id) ==
    LET match == MatchIndex(id)
    IN  ParseInt(IF match = Null THEN <<"0">> ELSE match[2])

PineconeDoc(doc) ==
    [sort_id |-> SortId(doc.id), id |-> doc.metadata.rec_id,
     page_number |-> doc.metadata.page_number, isbn_number |-> doc.metadata.isbn_number,
     text |-> doc.metadata.text, title |-> doc.metadata.title,
     author |-> doc.metadata.company_name,
     publication_date |-> doc.metadata.publication_date]

OpensearchDoc(doc) ==
    [sort_id |-> SortId(doc._id), id |-> doc._source.rec_id,
     page_number |-> doc._source.page_number, isbn_number |-> doc._source.isbn_number,
     text |-> doc._source.text, title |-> doc._source.title,
     author |-> doc._source.author,
     publication_date |-> doc._source.publication_date]

\* The reducer's state: the seen ids, the docs, and the history of pushes
Reducer0 == [id_set |-> <<>>, unique_docs |-> <<>>, pushed |-> <<>>]

\* Whether the similarity loop pushes a match
PineconePushes(doc) == Has(doc, "metadata")

\* for (const doc of pineconeResponse.matches)
RECURSIVE ReducePinecone(_, _)
ReducePinecone(st, matches) ==
    IF matches = <<>> THEN st
    ELSE LET doc == Head(matches)
             st1 == [st EXCEPT !.id_set = SetAdd(@, doc.id)]
             st2 == IF PineconePushes(doc)
                    THEN [st1 EXCEPT !.unique_docs = Append(@, PineconeDoc(doc)),
                                     !.pushed = Append(@, [chunk |-> doc.id, from |-> "similarity"])]
                    ELSE st1
         IN  ReducePinecone(st2, Tail(matches))

OpensearchPushesAlways(seen, id) == TRUE

\* Whether the keyword loop pushes a hit: !id_set.has(id)
OpensearchPushes(seen, id) == id \notin Range(seen)

\* for (const doc of fulltextResponse.body.hits.hits)
RECURSIVE ReduceOpensearch(_, _)
ReduceOpensearch(st, hits) ==
    IF hits = <<>> THEN st
    ELSE LET doc == Head(hits)
             st1 == IF OpensearchPushes(st.id_set, doc._id)
                    THEN [id_set |-> SetAdd(st.id_set, doc._id),
                          unique_docs |-> Append(st.unique_docs, OpensearchDoc(doc)),
                          pushed |-> Append(st.pushed, [chunk |-> doc._id, from |-> "keyword"])]
                    ELSE st
         IN  ReduceOpensearch(st1, Tail(hits))

\* lines 272-282: the windows of every seen id, less the seen ids
RECURSIVE AllRanges(_, _, _)
AllRanges(acc, ids, k) ==
    IF ids = <<>> THEN acc
    ELSE AllRanges(SetAddAll(acc, getIdRange(Head(ids), k)), Tail(ids), k)

ExtendIds(seen, k) == SetDeleteAll(AllRanges(<<>>, seen, k), seen)

\* opensearchClient.mget: one entry per requested id, in the order asked
Mget(ids) ==
    [j \in 1..Len(ids) |->
        IF ids[j] \in DOMAIN OpensearchIndex
        THEN [_id |-> ids[j], found |-> TRUE, _source |-> OpensearchIndex[ids[j]]]
        ELSE [_id |-> ids[j], found |-> FALSE]]

\* The code-unit order of the characters rec_id is written in
CodeUnit(ch) == CHOOSE n \in 1..4 : <<"0", "A", "B", "_">>[n] = ch

\* a < b on strings
StringLess(a, b) ==
    \E i \in 1..(Len(a) + 1) :
        /\ \A j \in 1..(i - 1) : j <= Len(b) /\ a[j] = b[j]
        /\ i <= Len(b)
        /\ (i > Len(a) \/ CodeUnit(a[i]) < CodeUnit(b[i]))

CompareIdOnly(a, b) ==
    IF StringLess(a.id, b.id) THEN -1
    ELSE IF StringLess(b.id, a.id) THEN 1
    ELSE 0

\* The comparator of unique_docs.sort
Compare(a, b) ==
    IF StringLess(a.id, b.id) THEN -1
    ELSE IF StringLess(b.id, a.id) THEN 1
    ELSE a.sort_id - b.sort_id

\* Array.prototype.sort is stable: an element goes after every element that
\* does not compare greater than it
Insert(sorted, x) ==
    LET before == {j \in 1..Len(sorted) : Compare(sorted[j], x) <= 0}
        n == IF before = {} THEN 0 ELSE CHOOSE j \in before : \A q \in before : q <= j
    IN  SubSeq(sorted, 1, n) \o <<x>> \o SubSeq(sorted, n + 1, Len(sorted))

RECURSIVE Sort(_)
Sort(s) == IF s = <<>> THEN <<>> ELSE Insert(Sort(SubSeq(s, 1, Len(s) - 1)), s[Len(s)])

\* currentGroup.map((doc) => doc.text).join('\n')
RECURSIVE CombinedText(_)
CombinedText(group) ==
    IF Len(group) = 1 THEN group[1].text
    ELSE CombinedText(SubSeq(group, 1, Len(group) - 1)) \o "\n" \o group[Len(group)].text

\* { ...currentGroup[0], text: combinedText }
CloseGroup(group) == [group[1] EXCEPT !.text = CombinedText(group)]

\* The single pass of lines 330-354; currentId is the first member's id
RECURSIVE Combine(_, _, _)
Combine(combined, currentGroup, docs) ==
    IF docs = <<>>
    THEN IF Len(currentGroup) > 0 THEN Append(combined, CloseGroup(currentGroup))
         ELSE combined
    ELSE LET doc == Head(docs)
         IN  IF currentGroup = <<>> \/ doc.id # currentGroup[1].id
             THEN Combine(IF Len(currentGroup) > 0
                          THEN Append(combined, CloseGroup(currentGroup))
                          ELSE combined,
                          <<doc>>, Tail(docs))
             ELSE Combine(combined, Append(currentGroup, doc), Tail(docs))

\* One entry of docList; the source string is kept as its parts, and the
\* calendar rendering of publication_date is not modelled
DocListEntry(doc) ==
    [content |-> doc.text,
     source |-> <<doc.title, doc.isbn_number, doc.author, doc.publication_date,
                  doc.page_number>>]

(***************************************************************************)
(* search, step by step: one action per stretch of code between awaits,    *)
(* and one per stage of the pipeline after the join                        *)
(***************************************************************************)
\* The parameter objects a call may carry: filter and datefilter are optional
ArgsOf(F, D, K) ==
    {[extK |-> k] : k \in K}
    \cup {[extK |-> k, filter |-> f] : k \in K, f \in F}
    \cup {[extK |-> k, datefilter |-> d] : k \in K, d \in D}
    \cup {[extK |-> k, filter |-> f, datefilter |-> d] : k \in K, f \in F, d \in D}

SearchArgs ==
    ArgsOf({[title |-> <<"T1">>]}, {[publication_date |-> [gte |-> 1]]}, 0..MaxExtK)

SearchInit ==
    /\ pc = "idle"
    /\ args = [extK |-> 0]
    /\ filters = <<>>
    /\ body = [minimum_should_match |-> 1]
    /\ queryOptions = [includeMetadata |-> TRUE, includeValues |-> FALSE]
    /\ pinecone = "idle"
    /\ fulltext = "idle"
    /\ pineconeResponse = <<>>
    /\ fulltextResponse = <<>>
    /\ id_set = <<>>
    /\ unique_docs = <<>>
    /\ extend_ids = <<>>
    /\ combinedDocs = <<>>
    /\ docList = <<>>
    /\ pushed = <<>>

\* search(...) is called and awaits openaiClient.embedQuery
CallSearch(A) ==
    /\ pc = "idle"
    /\ args' \in A
    /\ pc' = "embed"
    /\ UNCHANGED <<filters, body, queryOptions, pinecone, fulltext, pineconeResponse,
                   fulltextResponse, id_set, unique_docs, extend_ids, combinedDocs,
                   docList, pushed>>

EmbedReject ==
    /\ pc = "embed"
    /\ pc' = "failed"
    /\ UNCHANGED <<args, filters, body, queryOptions, pinecone, fulltext,
                   pineconeResponse, fulltextResponse, id_set, unique_docs, extend_ids,
                   combinedDocs, docList, pushed>>

\* The embedding arrives: the filters and both queries are built, and both
\* backend calls are started before Promise.all is awaited
EmbedResolve ==
    /\ pc = "embed"
    /\ filters' = BuildFilters(args)
    /\ body' = BuildBody(filters')
    /\ queryOptions' = BuildQueryOptions(filters')
    /\ pinecone' = "pending"
    /\ fulltext' = "pending"
    /\ pc' = "queries"
    /\ UNCHANGED <<args, pineconeResponse, fulltextResponse, id_set, unique_docs,
                   extend_ids, combinedDocs, docList, pushed>>

PineconeResolve ==
    /\ pinecone = "pending"
    /\ pineconeResponse' \in SeqsUpTo(PineconeMatches, MaxHits - Len(fulltextResponse))
    /\ pinecone' = "fulfilled"
    /\ UNCHANGED <<pc, args, filters, body, queryOptions, fulltext, fulltextResponse,
                   id_set, unique_docs, extend_ids, combinedDocs, docList, pushed>>

PineconeReject ==
    /\ pinecone = "pending"
    /\ pinecone' = "rejected"
    /\ UNCHANGED <<pc, args, filters, body, queryOptions, fulltext, pineconeResponse,
                   fulltextResponse, id_set, unique_docs, extend_ids, combinedDocs,
                   docList, pushed>>

OpensearchResolve ==
    /\ fulltext = "pending"
    /\ fulltextResponse' \in SeqsUpTo(OpensearchHits, MaxHits - Len(pineconeResponse))
    /\ fulltext' = "fulfilled"
    /\ UNCHANGED <<pc, args, filters, body, queryOptions, pinecone, pineconeResponse,
                   id_set, unique_docs, extend_ids, combinedDocs, docList, pushed>>

OpensearchReject ==
    /\ fulltext = "pending"
    /\ fulltext' = "rejected"
    /\ UNCHANGED <<pc, args, filters, body, queryOptions, pinecone, pineconeResponse,
                   fulltextResponse, id_set, unique_docs, extend_ids, combinedDocs,
                   docList, pushed>>

AnyFulfilled(p, q) == p = "fulfilled" \/ q = "fulfilled"

\* Promise.all fulfils when every promise has fulfilled
AllFulfilled(p, q) == p = "fulfilled" /\ q = "fulfilled"

\* Promise.all rejects as soon as one promise rejects
AnyRejected(p, q) == p = "rejected" \/ q = "rejected"

JoinReject ==
    /\ pc = "queries"
    /\ AnyRejected(pinecone, fulltext)
    /\ pc' = "failed"
    /\ UNCHANGED <<args, filters, body, queryOptions, pinecone, fulltext,
                   pineconeResponse, fulltextResponse, id_set, unique_docs, extend_ids,
                   combinedDocs, docList, pushed>>

\* lines 231-269
Reduce ==
    /\ pc = "queries"
    /\ AllFulfilled(pinecone, fulltext)
    /\ LET st == ReduceOpensearch(ReducePinecone(Reducer0, pineconeResponse),
                                  fulltextResponse)
       IN  /\ id_set' = st.id_set
           /\ unique_docs' = st.unique_docs
           /\ pushed' = st.pushed
    /\ pc' = "reduced"
    /\ UNCHANGED <<args, filters, body, queryOptions, pinecone, fulltext,
                   pineconeResponse, fulltextResponse, extend_ids, combinedDocs, docList>>

\* lines 271-289: extK > 0, the candidates are computed and mget is awaited
Expand ==
    /\ pc = "reduced"
    /\ args.extK > 0
    /\ extend_ids' = ExtendIds(id_set, args.extK)
    /\ pc' = "mget"
    /\ UNCHANGED <<args, filters, body, queryOptions, pinecone, fulltext,
                   pineconeResponse, fulltextResponse, id_set, unique_docs,
                   combinedDocs, docList, pushed>>

SkipExpand ==
    /\ pc = "reduced"
    /\ ~(args.extK > 0)
    /\ pc' = "merge"
    /\ UNCHANGED <<args, filters, body, queryOptions, pinecone, fulltext,
                   pineconeResponse, fulltextResponse, id_set, unique_docs, extend_ids,
                   combinedDocs, docList, pushed>>

MgetReject ==
    /\ pc = "mget"
    /\ pc' = "failed"
    /\ UNCHANGED <<args, filters, body, queryOptions, pinecone, fulltext,
                   pineconeResponse, fulltextResponse, id_set, unique_docs, extend_ids,
                   combinedDocs, docList, pushed>>

\* lines 291-309
MgetResolve ==
    /\ pc = "mget"
    /\ LET filteredResponse == SelectSeq(Mget(extend_ids), LAMBDA d : d.found)
       IN  /\ unique_docs' = unique_docs \o
                  [j \in 1..Len(filteredResponse) |-> OpensearchDoc(filteredResponse[j])]
           /\ pushed' = pushed \o
                  [j \in 1..Len(filteredResponse) |->
                      [chunk |-> filteredResponse[j]._id, from |-> "expansion"]]
    /\ pc' = "merge"
    /\ UNCHANGED <<args, filters, body, queryOptions, pinecone, fulltext,
                   pineconeResponse, fulltextResponse, id_set, extend_ids, combinedDocs,
                   docList>>

\* lines 319-354: the sort is in place
Merge ==
    /\ pc = "merge"
    /\ unique_docs' = Sort(unique_docs)
    /\ combinedDocs' = Combine(<<>>, <<>>, unique_docs')
    /\ pc' = "format"
    /\ UNCHANGED <<args, filters, body, queryOptions, pinecone, fulltext,
                   pineconeResponse, fulltextResponse, id_set, extend_ids, docList,
                   pushed>>

\* lines 358-368
Format ==
    /\ pc = "format"
    /\ docList' = [j \in 1..Len(combinedDocs) |-> DocListEntry(combinedDocs[j])]
    /\ pc' = "returned"
    /\ UNCHANGED <<args, filters, body, queryOptions, pinecone, fulltext,
                   pineconeResponse, fulltextResponse, id_set, unique_docs, extend_ids,
                   combinedDocs, pushed>>

(***************************************************************************)
(* sci_search: similarity search, then the citation lookup                 *)
(***************************************************************************)
batchSize == 400

\* A DOI is written as a positive number; the n-th match carries DOI n
SciMatch(d) ==
    [metadata |-> [doi |-> d, text |-> "text", journal |-> "journal", date |-> 1700000000]]

\* How many matches the similarity store may return
SciSizes == {0, 1, 2, batchSize, batchSize + 1}

\* The answers of the similarity store: n matches of distinct DOIs, alone or
\* followed by a second chunk of the first paper, by a match whose metadata
\* has no doi, or by a match without metadata
SciResponses ==
    UNION {LET base == [d \in 1..n |-> SciMatch(d)]
           IN  {base,
                base \o <<SciMatch(1)>>,
                base \o <<[metadata |-> [text |-> "text", journal |-> "journal"]]>>,
                base \o <<[id |-> "no-metadata"]>>} : n \in SciSizes}

\* The states of the journals table: every DOI, or one missing
SciTables == {1..(batchSize + 1), 2..(batchSize + 1), 1..batchSize}

SciFilters ==
    {<<>>, <<[x \in {} |-> 0]>>, <<[journal |-> <<"J1", "J2">>]>>, <<[date |-> "2020"]>>,
     <<[journal |-> <<"J1">>, date |-> "2020"]>>}

\* filterToPCQuery of sci_search: Null stands for undefined
SciFilterToPCQuery(f) ==
    IF f = <<>> \/ DOMAIN f[1] = {} THEN Null
    ELSE LET filter == f[1]
             conditions ==
                 (IF Has(filter, "journal")
                  THEN <<[or |-> [j \in DOMAIN filter.journal |-> [journal |-> filter.journal[j]]]]>>
                  ELSE <<>>)
                 \o (IF Has(filter, "date") THEN <<[date |-> filter.date]>> ELSE <<>>)
         IN  IF Len(conditions) > 0 THEN <<[and |-> conditions]>> ELSE Null

\* lines 110-119: the filter key is set only for a filter with keys
SciQueryOptions(f) ==
    LET base == [includeMetadata |-> TRUE, includeValues |-> FALSE]
    IN  IF f # <<>> /\ DOMAIN f[1] # {}
        THEN base @@ [filter |-> SciFilterToPCQuery(f)]
        ELSE base

\* lines 128-141: a match is kept when it has metadata with a doi
SciUniqueDocs(matches) ==
    LET kept == SelectSeq(matches, LAMBDA doc : Has(doc, "metadata") /\ Has(doc.metadata, "doi"))
    IN  [n \in DOMAIN kept |->
            [id |-> kept[n].metadata.doi, text |-> kept[n].metadata.text,
             journal |-> kept[n].metadata.journal, date |-> kept[n].metadata.date]]

\* Array.from(new Set(unique_docs.map((doc) => doc.id))): each id, at the place
\* of its first occurrence
UniqueIds(docs) ==
    LET numbered == [n \in DOMAIN docs |-> <<n, docs[n].id>>]
        first == SelectSeq(numbered,
                           LAMBDA p : \A m \in 1..(p[1] - 1) : docs[m].id # p[2])
    IN  [n \in DOMAIN first |-> first[n][2]]

\* select('doi, title, authors').in('doi', batch), when it succeeds
SelectJournals(table, batch) ==
    LET hit == SelectSeq(batch, LAMBDA d : d \in table)
    IN  [n \in DOMAIN hit |-> [doi |-> hit[n], title |-> "title", authors |-> <<"author">>]]

GetMetaErrorKeepsData(allData) == <<allData>>

\* if (error) return null
GetMetaError(allData) == Null

\* pgResponse?.find((r) => r.doi === doc.id)
HasRecord(pg, doc) == pg # Null /\ \E n \in DOMAIN pg[1] : pg[1][n].doi = doc.id

\* The docs for which the map of lines 148-162 finds no record
WithoutRecord(pg, docs) == {n \in DOMAIN docs : ~HasRecord(pg, docs[n])}

SciInit ==
    /\ sci_pc = "idle"
    /\ sci_error = ""
    /\ sci_filter = <<>>
    /\ sci_queryOptions = [includeMetadata |-> TRUE, includeValues |-> FALSE]
    /\ sci_matches = <<>>
    /\ sci_unique_docs = <<>>
    /\ getMeta_doi = <<>>
    /\ getMeta_i = 0
    /\ getMeta_allData = <<>>
    /\ batchError = FALSE
    /\ pgResponse = Null
    /\ sci_docList = <<>>

SciIdle == SciInit /\ journals = {}

\* search(...) is called and awaits openaiClient.embedQuery
SciCall ==
    /\ sci_pc = "idle"
    /\ sci_filter' \in SciFilters
    /\ sci_pc' = "embed"
    /\ UNCHANGED <<sci_error, sci_queryOptions, sci_matches, sci_unique_docs,
                   getMeta_doi, getMeta_i, getMeta_allData, batchError, pgResponse,
                   sci_docList, journals>>

SciEmbedReject ==
    /\ sci_pc = "embed"
    /\ sci_pc' = "failed"
    /\ sci_error' = "embedQuery"
    /\ UNCHANGED <<sci_filter, sci_queryOptions, sci_matches, sci_unique_docs,
                   getMeta_doi, getMeta_i, getMeta_allData, batchError, pgResponse,
                   sci_docList, journals>>

SciEmbedResolve ==
    /\ sci_pc = "embed"
    /\ sci_queryOptions' = SciQueryOptions(sci_filter)
    /\ sci_pc' = "query"
    /\ UNCHANGED <<sci_error, sci_filter, sci_matches, sci_unique_docs, getMeta_doi,
                   getMeta_i, getMeta_allData, batchError, pgResponse, sci_docList,
                   journals>>

SciQueryReject ==
    /\ sci_pc = "query"
    /\ sci_pc' = "failed"
    /\ sci_error' = "query"
    /\ UNCHANGED <<sci_filter, sci_queryOptions, sci_matches, sci_unique_docs,
                   getMeta_doi, getMeta_i, getMeta_allData, batchError, pgResponse,
                   sci_docList, journals>>

\* lines 121-146: the matches arrive, unique_docs is built and getMeta entered
SciQueryResolve ==
    /\ sci_pc = "query"
    /\ sci_matches' \in SciResponses
    /\ sci_unique_docs' = SciUniqueDocs(sci_matches')
    /\ getMeta_doi' = UniqueIds(sci_unique_docs')
    /\ getMeta_i' = 0
    /\ getMeta_allData' = <<>>
    /\ sci_pc' = "getMeta"
    /\ UNCHANGED <<sci_error, sci_filter, sci_queryOptions, batchError, pgResponse,
                   sci_docList, journals>>

Min(a, b) == IF a <= b THEN a ELSE b

\* doi.slice(i, i + batchSize)
GetMetaBatch ==
    SubSeq(getMeta_doi, getMeta_i + 1, Min(getMeta_i + batchSize, Len(getMeta_doi)))

\* One batch comes back with data
GetMetaBatchData ==
    /\ sci_pc = "getMeta"
    /\ getMeta_i < Len(getMeta_doi)
    /\ getMeta_allData' = getMeta_allData \o SelectJournals(journals, GetMetaBatch)
    /\ getMeta_i' = getMeta_i + batchSize
    /\ UNCHANGED <<sci_pc, sci_error, sci_filter, sci_queryOptions, sci_matches,
                   sci_unique_docs, getMeta_doi, batchError, pgResponse, sci_docList,
                   journals>>

\* One batch comes back with an error: getMeta returns at once
GetMetaBatchError ==
    /\ sci_pc = "getMeta"
    /\ getMeta_i < Len(getMeta_doi)
    /\ batchError' = TRUE
    /\ pgResponse' = GetMetaError(getMeta_allData)
    /\ sci_pc' = "cite"
    /\ UNCHANGED <<sci_error, sci_filter, sci_queryOptions, sci_matches,
                   sci_unique_docs, getMeta_doi, getMeta_i, getMeta_allData,
                   sci_docList, journals>>

\* The loop of getMeta ends: return allData
GetMetaReturn ==
    /\ sci_pc = "getMeta"
    /\ ~(getMeta_i < Len(getMeta_doi))
    /\ pgResponse' = <<getMeta_allData>>
    /\ sci_pc' = "cite"
    /\ UNCHANGED <<sci_error, sci_filter, sci_queryOptions, sci_matches,
                   sci_unique_docs, getMeta_doi, getMeta_i, getMeta_allData,
                   batchError, sci_docList, journals>>

\* lines 148-164, every doc has its record: the list is returned. The source
\* string is kept as its parts
Cite ==
    /\ sci_pc = "cite"
    /\ WithoutRecord(pgResponse, sci_unique_docs) = {}
    /\ sci_docList' =
          [n \in DOMAIN sci_unique_docs |->
              LET doc == sci_unique_docs[n]
                  record == CHOOSE r \in Range(pgResponse[1]) : r.doi = doc.id
              IN  [content |-> doc.text,
                   source |-> <<record.title, doc.journal, record.authors, doc.date,
                                record.doi>>]]
    /\ sci_pc' = "returned"
    /\ UNCHANGED <<sci_error, sci_filter, sci_queryOptions, sci_matches,
                   sci_unique_docs, getMeta_doi, getMeta_i, getMeta_allData,
                   batchError, pgResponse, journals>>

\* lines 148-164, some doc has no record: throw new Error('Record not found')
CiteThrow ==
    /\ sci_pc = "cite"
    /\ WithoutRecord(pgResponse, sci_unique_docs) # {}
    /\ sci_pc' = "failed"
    /\ sci_error' = "Record not found"
    /\ UNCHANGED <<sci_filter, sci_queryOptions, sci_matches, sci_unique_docs,
                   getMeta_doi, getMeta_i, getMeta_allData, batchError, pgResponse,
                   sci_docList, journals>>

(***************************************************************************)
(* The Deno.serve handlers: textbook_search (session cache, then           *)
(* supabaseAuth) and sci_search (supabaseAuth on every request)            *)
(***************************************************************************)
MaxRequests == 3

Slots == {1, 2}
Emails == {"u1", "u2"}
AuthStatuses == {200, 400, 500}

NoResponse == [status |-> 0, body |-> ""]

\* The Response supabaseAuth resolves to
AuthResponse(status) == [status |-> status, body |-> "supabaseAuth"]

IdleRequest ==
    [pc |-> "idle", fn |-> "", method |-> "", email |-> "", exists |-> "unchecked",
     authResponse |-> NoResponse, setex |-> FALSE, core |-> FALSE, response |-> NoResponse]

AuthInit ==
    /\ redis = {}
    /\ req = [r \in Slots |-> IdleRequest]
    /\ served = 0

AuthIdle ==
    /\ redis = {}
    /\ req = <<>>
    /\ served = 0

AuthRejectsServerErrors(status) == status >= 500

\* authResponse.status !== 200
AuthRejects(status) == status # 200

\* A request arrives. OPTIONS is answered at once; textbook_search awaits
\* redis.exists(email), sci_search awaits supabaseAuth
Receive(r) ==
    /\ req[r].pc = "idle"
    /\ served < MaxRequests
    /\ \E fn \in {"textbook_search", "sci_search"}, method \in {"OPTIONS", "POST"},
          email \in Emails :
          LET fresh == [IdleRequest EXCEPT !.fn = fn, !.method = method, !.email = email]
          IN  req' = [req EXCEPT ![r] =
                        IF method = "OPTIONS"
                        THEN [fresh EXCEPT !.pc = "done",
                                           !.response = [status |-> 200, body |-> "ok"]]
                        ELSE IF fn = "textbook_search" THEN [fresh EXCEPT !.pc = "exists"]
                        ELSE [fresh EXCEPT !.pc = "auth"]]
    /\ served' = served + 1
    /\ UNCHANGED redis

\* redis.exists(email) answers: on a hit the authentication is skipped
ExistsReturns(r) ==
    /\ req[r].pc = "exists"
    /\ req' = [req EXCEPT ![r] =
                  IF req[r].email \in redis
                  THEN [@ EXCEPT !.exists = "yes", !.pc = "json"]
                  ELSE [@ EXCEPT !.exists = "no", !.pc = "auth"]]
    /\ UNCHANGED <<redis, served>>

\* supabaseAuth answers: anything but 200 is returned as it is
AuthReturns(r) ==
    /\ req[r].pc = "auth"
    /\ \E status \in AuthStatuses :
          req' = [req EXCEPT ![r] =
                    IF AuthRejects(status)
                    THEN [@ EXCEPT !.authResponse = AuthResponse(status),
                                   !.response = AuthResponse(status), !.pc = "done"]
                    ELSE [@ EXCEPT !.authResponse = AuthResponse(status),
                                   !.pc = IF req[r].fn = "textbook_search"
                                          THEN "setex" ELSE "json"]]
    /\ UNCHANGED <<redis, served>>

\* redis.setex(email, 3600, '') is done
SetexReturns(r) ==
    /\ req[r].pc = "setex"
    /\ redis' = redis \cup {req[r].email}
    /\ req' = [req EXCEPT ![r] = [@ EXCEPT !.setex = TRUE, !.pc = "json"]]
    /\ UNCHANGED served

\* req.json() resolves; generateQuery is awaited
JsonReturns(r) ==
    /\ req[r].pc = "json"
    /\ req' = [req EXCEPT ![r] = [@ EXCEPT !.pc = "generateQuery"]]
    /\ UNCHANGED <<redis, served>>

\* generateQuery resolves and search is called
GenerateQueryReturns(r) ==
    /\ req[r].pc = "generateQuery"
    /\ req' = [req EXCEPT ![r] = [@ EXCEPT !.core = TRUE, !.pc = "search"]]
    /\ UNCHANGED <<redis, served>>

\* search resolves and its result is the response
SearchReturns(r) ==
    /\ req[r].pc = "search"
    /\ req' = [req EXCEPT ![r] =
                  [@ EXCEPT !.response = [status |-> 200, body |-> "docList"], !.pc = "done"]]
    /\ UNCHANGED <<redis, served>>

\* req.json(), generateQuery or search throws
HandlerThrows(r) ==
    /\ req[r].pc \in {"json", "generateQuery", "search"}
    /\ req' = [req EXCEPT ![r] = [@ EXCEPT !.pc = "error"]]
    /\ UNCHANGED <<redis, served>>

\* The response is sent and the slot is free again
Finish(r) ==
    /\ req[r].pc \in {"done", "error"}
    /\ req' = [req EXCEPT ![r] = IdleRequest]
    /\ UNCHANGED <<redis, served>>

\* A key's 3600 seconds are over
Expire ==
    /\ \E k \in redis : redis' = redis \ {k}
    /\ UNCHANGED <<req, served>>

(***************************************************************************)
(* SpecFilter: the two filters search builds, over a range of filters, and *)
(* what each backend selects with them from one corpus                     *)
(***************************************************************************)
MaxBound == 2

TermFilters ==
    {[title |-> ts] : ts \in {<<>>, <<"T1">>, <<"T1", "T2">>}}
    \cup {[title |-> <<"T2">>, isbn_number |-> <<"I1">>]}

\* { gte?, lte? } with bounds in 0..MaxBound
RangeObjects == UNION {[ks -> 0..MaxBound] : ks \in SUBSET {"gte", "lte"}}

DateFilters == {[publication_date |-> r] : r \in RangeObjects}

FilterArgs == ArgsOf(TermFilters, DateFilters, {0})

\* The documents both stores index; a publication date before 1970 is negative
Corpus ==
    {[title |-> t, isbn_number |-> i, publication_date |-> d] :
        t \in {"T1", "T2", "T3"}, i \in {"I1", "I2"}, d \in -1..(MaxBound + 1)}

InRange(v, r) ==
    /\ Has(r, "gte") => v >= r.gte
    /\ Has(r, "lte") => v <= r.lte

\* One clause of bool.filter: a terms clause or a range clause
OpensearchClause(doc, clause) ==
    /\ Has(clause, "terms") =>
          \A f \in DOMAIN clause.terms : doc[f] \in Range(clause.terms[f])
    /\ Has(clause, "range") =>
          \A f \in DOMAIN clause.range : InRange(doc[f], clause.range[f])

\* The documents the keyword store's bool query lets through its filter
OpensearchSelects(b) ==
    IF Has(b, "filter")
    THEN {doc \in Corpus : \A n \in DOMAIN b.filter : OpensearchClause(doc, b.filter[n])}
    ELSE Corpus

\* One condition of $and: { field: { $in } } or { field: { $gte, $lte } }; a
\* condition object with no operator constrains nothing
PineconeCondition(doc, c) ==
    /\ Has(c.cond, "in") => doc[c.field] \in Range(c.cond.in)
    /\ Has(c.cond, "gte") => doc[c.field] >= c.cond.gte
    /\ Has(c.cond, "lte") => doc[c.field] <= c.cond.lte

\* The documents the similarity store's metadata filter lets through
PineconeSelects(q) ==
    IF Has(q, "filter")
    THEN {doc \in Corpus :
            \A n \in DOMAIN q.filter.and : PineconeCondition(doc, q.filter.and[n])}
    ELSE Corpus

(***************************************************************************)
(* SpecWindow: getIdRange on ids drawn from a bounded set                  *)
(***************************************************************************)
MaxIndex == 11
MaxWindow == 3

WinPrefixes == {<<>>, <<"d">>, <<"d", "_", "1">>, <<"d", "7">>}

\* The decimal numeral of n < 100, written out digit by digit
Numeral(n) == IF n < 10 THEN <<Digit[n + 1]>>
              ELSE <<Digit[(n \div 10) + 1], Digit[(n % 10) + 1]>>

\* prefix_N, optionally with N zero-padded
ChunkIdOf(prefix, n, pad) ==
    prefix \o <<"_">> \o (IF pad THEN <<"0">> ELSE <<>>) \o Numeral(n)

WinIds == {ChunkIdOf(p, n, pad) : p \in WinPrefixes, n \in 0..MaxIndex, pad \in BOOLEAN}
            \cup {<<"d">>, <<"d", "_">>, <<"d", "_", "1", "a">>}

WinIdle ==
    /\ w_id = <<>>
    /\ w_extK = 0
    /\ w_result = <<>>
    /\ w_pc = "off"

WinInit ==
    /\ w_id \in WinIds
    /\ w_extK \in 0..MaxWindow
    /\ w_result = <<>>
    /\ w_pc = "call"

WinCall ==
    /\ w_pc = "call"
    /\ w_result' = getIdRange(w_id, w_extK)
    /\ w_pc' = "done"
    /\ UNCHANGED <<w_id, w_extK>>

(***************************************************************************)
(* Specifications                                                          *)
(***************************************************************************)
\* One call of textbook_search's search
Init == SearchInit /\ SciIdle /\ AuthIdle /\ WinIdle

Next ==
    \/ CallSearch(SearchArgs) /\ UNCHANGED <<sciVars, authVars, winVars>>
    \/ EmbedReject /\ UNCHANGED <<sciVars, authVars, winVars>>
    \/ EmbedResolve /\ UNCHANGED <<sciVars, authVars, winVars>>
    \/ PineconeResolve /\ UNCHANGED <<sciVars, authVars, winVars>>
    \/ PineconeReject /\ UNCHANGED <<sciVars, authVars, winVars>>
    \/ OpensearchResolve /\ UNCHANGED <<sciVars, authVars, winVars>>
    \/ OpensearchReject /\ UNCHANGED <<sciVars, authVars, winVars>>
    \/ JoinReject /\ UNCHANGED <<sciVars, authVars, winVars>>
    \/ Reduce /\ UNCHANGED <<sciVars, authVars, winVars>>
    \/ Expand /\ UNCHANGED <<sciVars, authVars, winVars>>
    \/ SkipExpand /\ UNCHANGED <<sciVars, authVars, winVars>>
    \/ MgetReject /\ UNCHANGED <<sciVars, authVars, winVars>>
    \/ MgetResolve /\ UNCHANGED <<sciVars, authVars, winVars>>
    \/ Merge /\ UNCHANGED <<sciVars, authVars, winVars>>
    \/ Format /\ UNCHANGED <<sciVars, authVars, winVars>>

Spec == Init /\ [][Next]_vars

\* The query-building part of search, over a range of filters
NextFilter ==
    \/ CallSearch(FilterArgs) /\ UNCHANGED <<sciVars, authVars, winVars>>
    \/ EmbedReject /\ UNCHANGED <<sciVars, authVars, winVars>>
    \/ EmbedResolve /\ UNCHANGED <<sciVars, authVars, winVars>>

SpecFilter == Init /\ [][NextFilter]_vars

\* One call of sci_search's search
InitSci == SearchInit /\ SciInit /\ journals \in SciTables /\ AuthIdle /\ WinIdle

NextSci ==
    \/ SciCall /\ UNCHANGED <<searchVars, authVars, winVars>>
    \/ SciEmbedReject /\ UNCHANGED <<searchVars, authVars, winVars>>
    \/ SciEmbedResolve /\ UNCHANGED <<searchVars, authVars, winVars>>
    \/ SciQueryReject /\ UNCHANGED <<searchVars, authVars, winVars>>
    \/ SciQueryResolve /\ UNCHANGED <<searchVars, authVars, winVars>>
    \/ GetMetaBatchData /\ UNCHANGED <<searchVars, authVars, winVars>>
    \/ GetMetaBatchError /\ UNCHANGED <<searchVars, authVars, winVars>>
    \/ GetMetaReturn /\ UNCHANGED <<searchVars, authVars, winVars>>
    \/ Cite /\ UNCHANGED <<searchVars, authVars, winVars>>
    \/ CiteThrow /\ UNCHANGED <<searchVars, authVars, winVars>>

SpecSci == InitSci /\ [][NextSci]_vars

\* The handlers' gate, with requests in flight side by side
InitAuth == SearchInit /\ SciIdle /\ AuthInit /\ WinIdle

NextAuth ==
    \/ \E r \in Slots : Receive(r) /\ UNCHANGED <<searchVars, sciVars, winVars>>
    \/ \E r \in Slots : ExistsReturns(r) /\ UNCHANGED <<searchVars, sciVars, winVars>>
    \/ \E r \in Slots : AuthReturns(r) /\ UNCHANGED <<searchVars, sciVars, winVars>>
    \/ \E r \in Slots : SetexReturns(r) /\ UNCHANGED <<searchVars, sciVars, winVars>>
    \/ \E r \in Slots : JsonReturns(r) /\ UNCHANGED <<searchVars, sciVars, winVars>>
    \/ \E r \in Slots : GenerateQueryReturns(r) /\ UNCHANGED <<searchVars, sciVars, winVars>>
    \/ \E r \in Slots : SearchReturns(r) /\ UNCHANGED <<searchVars, sciVars, winVars>>
    \/ \E r \in Slots : HandlerThrows(r) /\ UNCHANGED <<searchVars, sciVars, winVars>>
    \/ \E r \in Slots : Finish(r) /\ UNCHANGED <<searchVars, sciVars, winVars>>
    \/ Expire /\ UNCHANGED <<searchVars, sciVars, winVars>>

SpecAuth == InitAuth /\ [][NextAuth]_vars

\* getIdRange alone
InitWindow == SearchInit /\ SciIdle /\ AuthIdle /\ WinInit

NextWindow == WinCall /\ UNCHANGED <<searchVars, sciVars, authVars>>

SpecWindow == InitWindow /\ [][NextWindow]_vars

(***************************************************************************)
(* Properties of textbook_search's search (Spec)                           *)
(***************************************************************************)
\* The chunk ids of the docs pushed so far, one per push
PushedIds == [n \in DOMAIN pushed |-> pushed[n].chunk]

NoRepeat(s) == \A i, j \in DOMAIN s : i # j => s[i] # s[j]

PineconeIds == [i \in DOMAIN pineconeResponse |-> pineconeResponse[i].id]

OpensearchIds == [j \in DOMAIN fulltextResponse |-> fulltextResponse[j]._id]

\* C1 as stated: whatever the two hit lists are, the reducer's output holds each
\* chunk id at most once.
C1_DedupUniqueAnyLists == pc = "reduced" => NoRepeat(PushedIds)

\* C1, amended: when the similarity hit list itself repeats no chunk id, the
\* reducer's output holds each chunk id at most once, whatever the keyword
\* list repeats and however the two lists overlap.
C1_DedupUnique == pc = "reduced" /\ NoRepeat(PineconeIds) => NoRepeat(PushedIds)

\* The keyword list repeats an id and overlaps the similarity list
C1_Witness ==
    /\ pc = "reduced"
    /\ NoRepeat(PineconeIds)
    /\ ~NoRepeat(OpensearchIds)
    /\ Range(PineconeIds) \cap Range(OpensearchIds) # {}
    /\ Len(fulltextResponse) = 2
    /\ Len(unique_docs) = 1

\* C2: a chunk id returned by both backends, with metadata on the similarity
\* side, has a doc in the reducer's output, and every doc of that id is built
\* from a similarity match of that id, never from the keyword hit.
C2_DedupPrecedence ==
    pc = "reduced" =>
        \A i \in DOMAIN pineconeResponse, j \in DOMAIN fulltextResponse :
            LET X == pineconeResponse[i].id
            IN  X = fulltextResponse[j]._id /\ Has(pineconeResponse[i], "metadata") =>
                    /\ \E n \in DOMAIN pushed : pushed[n].chunk = X
                    /\ \A n \in DOMAIN pushed : pushed[n].chunk = X =>
                          /\ \E m \in DOMAIN pineconeResponse :
                                /\ pineconeResponse[m].id = X
                                /\ Has(pineconeResponse[m], "metadata")
                                /\ unique_docs[n] = PineconeDoc(pineconeResponse[m])
                          /\ unique_docs[n] # OpensearchDoc(fulltextResponse[j])

\* a_1 comes back from both backends with different text and author
C2_Witness ==
    /\ pc = "reduced"
    /\ \E i \in DOMAIN pineconeResponse, j \in DOMAIN fulltextResponse :
          /\ pineconeResponse[i].id = a_1
          /\ fulltextResponse[j]._id = a_1
          /\ PineconeDoc(pineconeResponse[i]) # OpensearchDoc(fulltextResponse[j])
    /\ \E n \in DOMAIN pushed : pushed[n].chunk = a_1 /\ unique_docs[n].text = "S:a1"

\* C3: no id sent to mget, and no chunk the expander appends, is in the seen-id
\* set the reducer left.
C3_ExpansionExclusive ==
    /\ Range(extend_ids) \cap Range(id_set) = {}
    /\ \A n \in DOMAIN pushed :
          pushed[n].from = "expansion" =>
              pushed[n].chunk \notin Range(id_set) /\ pushed[n].chunk \in Range(extend_ids)

\* a_1 was seen, its window a_0..a_2 was computed, and a_0 and a_2 were appended
C3_Witness ==
    /\ pc = "merge"
    /\ args.extK > 0
    /\ a_1 \in Range(id_set)
    /\ a_1 \in Range(getIdRange(a_1, args.extK))
    /\ \E n \in DOMAIN pushed : pushed[n].from = "expansion" /\ pushed[n].chunk = a_0
    /\ \E n \in DOMAIN pushed : pushed[n].from = "expansion" /\ pushed[n].chunk = a_2

\* texts joined with a newline, front to back
RECURSIVE JoinLines(_)
JoinLines(texts) ==
    IF Len(texts) = 1 THEN texts[1] ELSE texts[1] \o "\n" \o JoinLines(Tail(texts))

\* The listings of the members of a group in ascending sort index order: the
\* next member is always one of the lowest left
RECURSIVE AscendingOrders(_, _)
AscendingOrders(input, members) ==
    IF members = {} THEN {<<>>}
    ELSE UNION {{<<m>> \o rest : rest \in AscendingOrders(input, members \ {m})} :
                  m \in {m \in members :
                            \A o \in members : input[m].sort_id <= input[o].sort_id}}

\* What the merger owes for the working set `input`
Grouped(input, output) ==
    LET parents == {input[i].id : i \in DOMAIN input}
    IN  /\ Len(output) = Cardinality(parents)
        /\ {output[j].id : j \in DOMAIN output} = parents
        /\ \A j, k \in DOMAIN output : j < k => StringLess(output[j].id, output[k].id)
        /\ \A j \in DOMAIN output :
              \E ord \in AscendingOrders(input,
                                          {i \in DOMAIN input : input[i].id = output[j].id}) :
                  /\ output[j].text = JoinLines([k \in DOMAIN ord |-> input[ord[k]].text])
                  /\ [output[j] EXCEPT !.text = input[ord[1]].text] = input[ord[1]]

\* C4: the merger turns any working set into one passage per parent id, in
\* ascending parent id order, each with the texts of that parent's chunks joined
\* in ascending sort index order and the other fields of the lowest one.
C4_Grouping ==
    [][pc = "merge" /\ pc' = "format" => Grouped(unique_docs, combinedDocs')]_vars

\* a_1 was pushed before a_0, and the passage reads a_0 then a_1
C4_Witness ==
    /\ pc = "format"
    /\ Len(pushed) >= 3
    /\ pushed[1].chunk = a_1
    /\ pushed[2].chunk = a_0
    /\ Len(combinedDocs) = 2
    /\ combinedDocs[1].text = "S:a0\nS:a1"
    /\ combinedDocs[1].page_number = 10

\* C5: a call with neither filter nor datefilter sends a keyword body with no
\* filter clause and vector query options with no filter key.
C5_AbsentFilterOmitted ==
    pc \notin {"idle", "embed"} /\ ~Has(args, "filter") /\ ~Has(args, "datefilter") =>
        ~Has(body, "filter") /\ ~Has(queryOptions, "filter")

\* C9: the two queries are started together, the reducer and everything after
\* it run only with both fulfilled, and once either is rejected the call can
\* only fail: nothing is reduced and no list is returned.
C9_ForkJoin ==
    /\ pinecone = "idle" <=> fulltext = "idle"
    /\ pc \in {"reduced", "mget", "merge", "format", "returned"} =>
          pinecone = "fulfilled" /\ fulltext = "fulfilled"
    /\ pinecone = "rejected" \/ fulltext = "rejected" =>
          /\ pc \in {"queries", "failed"}
          /\ unique_docs = <<>>
          /\ docList = <<>>
          /\ ~ENABLED Reduce

\* The similarity query answered, the keyword query failed, the call failed
C9_Witness ==
    /\ pc = "failed"
    /\ pinecone = "fulfilled"
    /\ Len(pineconeResponse) > 0
    /\ fulltext = "rejected"

(***************************************************************************)
(* Properties of the filter translation (SpecFilter)                       *)
(***************************************************************************)
\* C6: for every filter, the keyword-store filter and the vector-store filter
\* that search builds select the same documents of the corpus.
C6_FilterEquivalent ==
    pc = "queries" => OpensearchSelects(body) = PineconeSelects(queryOptions)

(***************************************************************************)
(* Properties of sci_search's search (SpecSci)                             *)
(***************************************************************************)
\* Every doc of unique_docs has a record in what getMeta returned
EveryDocHasRecord ==
    /\ pgResponse # Null
    /\ LET found == {pgResponse[1][n].doi : n \in DOMAIN pgResponse[1]}
       IN  \A n \in DOMAIN sci_unique_docs : sci_unique_docs[n].id \in found

\* C7: search returns a list only when every doc has a record in the lookup
\* result; when one has none the call fails with nothing returned; and a batch
\* that came back with an error leaves no lookup result at all, so a call with
\* such a batch never returns.
C7_CitationMissFatal ==
    /\ sci_pc = "returned" =>
          EveryDocHasRecord /\ Len(sci_docList) = Len(sci_unique_docs)
    /\ sci_pc = "failed" /\ sci_error = "Record not found" => ~EveryDocHasRecord
    /\ sci_pc # "returned" => sci_docList = <<>>
    /\ batchError => pgResponse = Null /\ sci_pc \in {"cite", "failed"}

\* The first batch of 400 was answered, the second came back with an error,
\* and the call failed
C7_Witness ==
    /\ sci_pc = "failed"
    /\ sci_error = "Record not found"
    /\ batchError
    /\ getMeta_i = batchSize
    /\ Len(getMeta_allData) = batchSize
    /\ journals = 1..(batchSize + 1)

(***************************************************************************)
(* Properties of the handlers (SpecAuth)                                   *)
(***************************************************************************)
\* C8: search runs for a request only if its cache key existed when checked
\* or its authentication answered 200; when the authentication answers
\* anything else, that response is the request's response, search does not
\* run for it and it sets no cache key.
C8_AuthGate ==
    \A r \in Slots :
        /\ req[r].pc \in {"json", "generateQuery", "search"} \/ req[r].core =>
              req[r].exists = "yes" \/ req[r].authResponse.status = 200
        /\ req[r].authResponse.status \notin {0, 200} =>
              /\ req[r].pc = "done"
              /\ req[r].response = req[r].authResponse
              /\ ~req[r].core
              /\ ~req[r].setex
        /\ req[r].setex => req[r].authResponse.status = 200

\* One request went through on its cache key while another was turned away
\* with the authentication's 400
C8_Witness ==
    \E r, q \in Slots :
        /\ req[r].core /\ req[r].exists = "yes" /\ req[r].authResponse = NoResponse
        /\ req[q].pc = "done" /\ req[q].response = AuthResponse(400)

(***************************************************************************)
(* Properties of getIdRange (SpecWindow)                                   *)
(***************************************************************************)
\* C10: for an id prefix_N and k >= 1, getIdRange returns exactly the ids
\* prefix_i with max(0, N - k) <= i <= N + k, each once; none has a negative
\* index.
C10_WindowCorrect ==
    w_pc = "done" /\ w_extK >= 1 =>
        \A p \in WinPrefixes, n \in 0..MaxIndex, pad \in BOOLEAN :
            w_id = ChunkIdOf(p, n, pad) =>
                /\ Range(w_result) =
                      {p \o <<"_">> \o Numeral(i) : i \in Max(0, n - w_extK)..(n + w_extK)}
                /\ NoRepeat(w_result)
                /\ \A j \in DOMAIN w_result : "-" \notin Range(w_result[j])

\* windowOf("d_0", 2) = {d_0, d_1, d_2}: the lower end is clamped
C10_Witness ==
    /\ w_pc = "done"
    /\ w_id = <<"d", "_", "0">>
    /\ w_extK = 2
    /\ w_result = << <<"d", "_", "0">>, <<"d", "_", "1">>, <<"d", "_", "2">> >>

=============================================================================
